---- MODULE Spec2Model ----
(***************************************************************************)
(* Fetch pipeline of snowfall_data_extract: the shared RateLimit, the      *)
(* retrying NOAAClient._make_request / get_station_data, and the           *)
(* per-station coroutine fetch_station_data run concurrently by            *)
(* asyncio.gather under main's `with WeatherDatabase` / `async with        *)
(* NOAAClient` scopes.                                                     *)
(* A 200 response is a sequence of JSON elements, validated field by       *)
(* field as pydantic does; WeatherDatabase is its two tables, each a set   *)
(* of rows, and the log of the upsert calls made on it.                    *)
(*                                                                         *)
(* One action is one run of a coroutine between two suspension points      *)
(* (asyncio.sleep in RateLimit.wait, client.get, the backoff sleeps): the  *)
(* event loop is single-threaded, so that code runs atomically.            *)
(*                                                                         *)
(* The clock `now` (time.time()) is in whole seconds.  Backoff durations   *)
(* are recorded in tenths of a second, so that 2**n + n*0.1 is an integer. *)
(***************************************************************************)
EXTENDS Integers, Sequences, FiniteSets, TLC

\* ------------------------------------------------------------------ bounds
Stations == {"s1", "s2"}
MaxTime == 25
TickStep == 6
MaxFailures == 4
MaxRetriesCfg == 3
MaxCalls == 2
MaxBatch == 2
MaxOpens == 2
MaxLoaderCalls == 2

\* ------------------------------------------------- program constants
calls_per_minute == 5
fetch_max_retries == 3

VARIABLES
    now,             \* time.time()
    max_retries,     \* NOAAClient.max_retries
    last_call_time,  \* RateLimit.last_call_time
    task,            \* per station: the coroutine fetch_station_data(s, ...)
    db_stations,     \* the rows of table weather_station
    db_weather,      \* the rows of table weather_data
    db_log,          \* the calls of upsert_station / upsert_weather_data so far
    db_tables,       \* the tables the database file holds
    sql_files,       \* the .sql files of sql_dir: name -> text, or Absent
    sql_cache,       \* SQLLoader._cache: name -> text, or Absent
    sql_log,         \* the calls of SQLLoader.get_query so far
    limit_calls_per_minute,  \* RateLimit.calls_per_minute
    wait_returns,    \* times of the last two returns from RateLimit.wait()
    failures,        \* failures the remote API has produced so far
    main             \* main(): where run() stands, the two scopes, the exit code

vars == <<now, max_retries, last_call_time, task, db_stations, db_weather,
          db_log, wait_returns, failures, main,
          limit_calls_per_minute, db_tables, sql_files, sql_cache, sql_log>>

\* ---------------------------------------------------------------- values
NoException == [kind |-> "none", attempt |-> 0]

\* What one awaited client.get + raise_for_status can produce.
\*   transport : httpx.TransportError and subclasses (ConnectError,
\*               RemoteProtocolError, ReadError, timeouts)
\*   http429 / http5xx / http4xx : HTTPStatusError by status code
\*   read_error: httpcore.ReadError, which is not an httpx exception
FailureKinds == {"transport", "http429", "http5xx", "http4xx", "read_error"}
\* Body of a 200 response: [] / one or two rows that validate / a row with a
\* malformed numeric field / a row without a required field / a first row
\* without the station's name.
Bodies == {"empty", "single", "rows", "malformed", "missing", "nostation"}

\* Events of a task's trace: wait() returned, client.get awaited, its outcome,
\* a backoff asyncio.sleep(d) with d in tenths of a second.
EvWait == [ev |-> "wait", kind |-> "", d |-> 0]
EvGet == [ev |-> "get", kind |-> "", d |-> 0]
EvResp(k) == [ev |-> "resp", kind |-> k, d |-> 0]
EvSleep(n) == [ev |-> "sleep", kind |-> "", d |-> n]

\* ------------------------------------------------ response elements
\* A JSON element is a record of strings under the API's field names; Absent
\* stands for a key the object does not carry.
Absent == "<absent>"

StationName == [s \in Stations |-> IF s = "s1" THEN "MINNEAPOLIS" ELSE "DULUTH"]

FullElement(s) ==
    [STATION |-> s, NAME |-> StationName[s],
     LATITUDE |-> "44.8831", LONGITUDE |-> "-93.2289", ELEVATION |-> "265.8",
     DATE |-> "2024-01-01",
     PRCP |-> "0.02", PRCP_ATTRIBUTES |-> ",,",
     SNOW |-> "0.5", SNOW_ATTRIBUTES |-> ",,",
     SNWD |-> "4.0", SNWD_ATTRIBUTES |-> ",,",
     TMAX |-> "28", TMAX_ATTRIBUTES |-> ",,",
     TMIN |-> "15", TMIN_ATTRIBUTES |-> ",,"]

\* The next day, with no snow or temperature reading.
SparseElement(s) ==
    [FullElement(s) EXCEPT !.DATE = "2024-01-02", !.PRCP = "0.0",
                           !.SNOW = Absent, !.SNOW_ATTRIBUTES = Absent,
                           !.SNWD = Absent, !.SNWD_ATTRIBUTES = Absent,
                           !.TMAX = Absent, !.TMAX_ATTRIBUTES = Absent,
                           !.TMIN = Absent, !.TMIN_ATTRIBUTES = Absent]

BodyOf(body, s) ==
    CASE body = "empty" -> <<>>
      [] body = "single" -> <<SparseElement(s)>>
      [] body = "rows" -> <<FullElement(s), SparseElement(s)>>
      [] body = "malformed" ->
             <<FullElement(s), [SparseElement(s) EXCEPT !.PRCP = "abc"]>>
      [] body = "missing" ->
             <<FullElement(s), [SparseElement(s) EXCEPT !.DATE = Absent]>>
      [] body = "nostation" ->
             <<[FullElement(s) EXCEPT !.NAME = Absent], SparseElement(s)>>

\* --------------------------------------------- pydantic field parsing
\* Optional values: <<>> is None, <<v>> a value.  Decimals are exact, kept
\* in ten-thousandths; a string outside these tables does not validate.
None == <<>>
Some(v) == <<v>>

DecimalValue ==
    [x \in {"0.0", "0.02", "0.5", "4.0", "44.8831", "-93.2289", "265.8"} |->
        CASE x = "0.0" -> 0
          [] x = "0.02" -> 200
          [] x = "0.5" -> 5000
          [] x = "4.0" -> 40000
          [] x = "44.8831" -> 448831
          [] x = "-93.2289" -> 0 - 932289
          [] x = "265.8" -> 2658000]

IntValue == [x \in {"15", "28"} |-> IF x = "15" THEN 15 ELSE 28]

DateValue ==
    [x \in {"2024-01-01", "2024-01-02"} |->
        IF x = "2024-01-01" THEN <<2024, 1, 1>> ELSE <<2024, 1, 2>>]

OptDecimal(x) == IF x = Absent THEN None ELSE Some(DecimalValue[x])
OptInt(x) == IF x = Absent THEN None ELSE Some(IntValue[x])
OptStr(x) == IF x = Absent THEN None ELSE Some(x)

ValidOptDecimal(x) == x = Absent \/ x \in DOMAIN DecimalValue
ValidOptInt(x) == x = Absent \/ x \in DOMAIN IntValue

\* noaa.py 55-69: WeatherData.model_validate(row) succeeds.
ValidWeatherData(row) ==
    /\ row.STATION # Absent
    /\ row.DATE \in DOMAIN DateValue
    /\ ValidOptDecimal(row.PRCP)
    /\ ValidOptDecimal(row.SNOW)
    /\ ValidOptDecimal(row.SNWD)
    /\ ValidOptInt(row.TMAX)
    /\ ValidOptInt(row.TMIN)

\* noaa.py 55-69: WeatherData.model_validate(row).
WeatherData(row) ==
    [station_id |-> row.STATION,
     date |-> DateValue[row.DATE],
     precipitation |-> OptDecimal(row.PRCP),
     precipitation_attributes |-> OptStr(row.PRCP_ATTRIBUTES),
     snowfall |-> OptDecimal(row.SNOW),
     snowfall_attributes |-> OptStr(row.SNOW_ATTRIBUTES),
     snow_depth |-> OptDecimal(row.SNWD),
     snow_depth_attributes |-> OptStr(row.SNWD_ATTRIBUTES),
     temp_max |-> OptInt(row.TMAX),
     temp_max_attributes |-> OptStr(row.TMAX_ATTRIBUTES),
     temp_min |-> OptInt(row.TMIN),
     temp_min_attributes |-> OptStr(row.TMIN_ATTRIBUTES)]

\* noaa.py 45-52: WeatherStation.model_validate(row) succeeds.
ValidWeatherStation(row) ==
    /\ row.STATION # Absent
    /\ row.NAME # Absent
    /\ row.LATITUDE \in DOMAIN DecimalValue
    /\ row.LONGITUDE \in DOMAIN DecimalValue
    /\ row.ELEVATION \in DOMAIN DecimalValue

\* noaa.py 45-52: WeatherStation.model_validate(row).
WeatherStation(row) ==
    [station_id |-> row.STATION,
     name |-> row.NAME,
     latitude |-> DecimalValue[row.LATITUDE],
     longitude |-> DecimalValue[row.LONGITUDE],
     elevation |-> DecimalValue[row.ELEVATION]]

\* Variant: elements without a snowfall reading are dropped.
ParseResponse_DropSparse(data) ==
    IF data = <<>>
    THEN [raised |-> FALSE, weather_data |-> <<>>, station_info |-> None]
    ELSE IF \/ \E i \in DOMAIN data : ~ValidWeatherData(data[i])
            \/ ~ValidWeatherStation(data[1])
    THEN [raised |-> TRUE, weather_data |-> <<>>, station_info |-> None]
    ELSE LET HasSnow(row) == row.SNOW # Absent
             kept == SelectSeq(data, HasSnow)
         IN [raised |-> FALSE,
             weather_data |-> [i \in DOMAIN kept |-> WeatherData(kept[i])],
             station_info |-> Some(WeatherStation(data[1]))]

\* Variant: an element that does not validate is skipped.
ParseResponse_SkipInvalid(data) ==
    LET kept == SelectSeq(data, ValidWeatherData) IN
    IF kept = <<>>
    THEN [raised |-> FALSE, weather_data |-> <<>>, station_info |-> None]
    ELSE [raised |-> FALSE,
          weather_data |-> [i \in DOMAIN kept |-> WeatherData(kept[i])],
          station_info |-> Some(WeatherStation(kept[1]))]

\* Variant: no test for an empty array before data[0] is read.
ParseResponse_NoEmptyTest(data) ==
    IF \/ data = <<>>
       \/ \E i \in DOMAIN data : ~ValidWeatherData(data[i])
       \/ ~ValidWeatherStation(data[1])
    THEN [raised |-> TRUE, weather_data |-> <<>>, station_info |-> None]
    ELSE [raised |-> FALSE,
          weather_data |-> [i \in DOMAIN data |-> WeatherData(data[i])],
          station_info |-> Some(WeatherStation(data[1]))]

\* noaa.py 172-180: what get_station_data makes of response.json().
ParseResponse(data) ==
    IF data = <<>>
    THEN [raised |-> FALSE, weather_data |-> <<>>, station_info |-> None]
    ELSE IF \/ \E i \in DOMAIN data : ~ValidWeatherData(data[i])
            \/ ~ValidWeatherStation(data[1])
    THEN [raised |-> TRUE, weather_data |-> <<>>, station_info |-> None]
    ELSE [raised |-> FALSE,
          weather_data |-> [i \in DOMAIN data |-> WeatherData(data[i])],
          station_info |-> Some(WeatherStation(data[1]))]

\* ------------------------------------------------------ WeatherDatabase
\* A table is the set of its rows; a row maps column names to values.
\* Column lists and keys of the two INSERT OR REPLACE statements.
StationColumns ==
    <<"station_id", "station_name", "latitude", "longitude", "elevation">>

WeatherColumns ==
    <<"station_id", "date", "precipitation", "precipitation_attributes",
      "snowfall", "snowfall_attributes", "snow_depth", "snow_depth_attributes",
      "temp_max", "temp_max_attributes", "temp_min", "temp_min_attributes">>

StationKey == <<"station_id">>
WeatherKey == <<"station_id", "date">>

\* The row that VALUES (?, ?, ...) makes of a parameter tuple.
RowOf(columns, values) ==
    [c \in {columns[i] : i \in DOMAIN columns} |->
        values[CHOOSE i \in DOMAIN columns : columns[i] = c]]

SameKey(key, r1, r2) == \A i \in DOMAIN key : r1[key[i]] = r2[key[i]]

\* INSERT OR REPLACE of one row under a primary key.
InsertOrReplace(table, key, row) ==
    {r \in table : ~SameKey(key, r, row)} \cup {row}

\* conn.executemany: the statement once per parameter tuple, in order.
RECURSIVE ExecuteMany(_, _, _)
ExecuteMany(table, key, rows) ==
    IF rows = <<>> THEN table
    ELSE ExecuteMany(InsertOrReplace(table, key, Head(rows)), key, Tail(rows))

\* db.py 45-51: the parameter tuple of upsert_station.
StationValues(station) ==
    <<station.station_id, station.name, station.latitude, station.longitude,
      station.elevation>>

\* Variant: snowfall and snow depth change places in the tuple.
WeatherValues_Swapped(record) ==
    <<record.station_id, record.date,
      record.precipitation, record.precipitation_attributes,
      record.snow_depth, record.snowfall_attributes,
      record.snowfall, record.snow_depth_attributes,
      record.temp_max, record.temp_max_attributes,
      record.temp_min, record.temp_min_attributes>>

\* db.py 66-79: the parameter tuple of one record.
WeatherValues(record) ==
    <<record.station_id, record.date,
      record.precipitation, record.precipitation_attributes,
      record.snowfall, record.snowfall_attributes,
      record.snow_depth, record.snow_depth_attributes,
      record.temp_max, record.temp_max_attributes,
      record.temp_min, record.temp_min_attributes>>

\* db.py 36-52: upsert_station; `fails` is the engine rejecting the call.
UpsertStation(table, station, fails) ==
    IF fails THEN [table |-> table, raised |-> TRUE]
    ELSE [table |-> InsertOrReplace(table, StationKey,
                                    RowOf(StationColumns, StationValues(station))),
          raised |-> FALSE]

\* Variant: an empty list is rejected.
UpsertWeatherData_RejectEmpty(table, data, fails) ==
    IF data = <<>> \/ fails THEN [table |-> table, raised |-> TRUE]
    ELSE [table |-> ExecuteMany(table, WeatherKey,
                       [i \in DOMAIN data |-> RowOf(WeatherColumns, WeatherValues(data[i]))]),
          raised |-> FALSE]

\* Variant: execute instead of executemany: only the first record is written.
UpsertWeatherData_FirstOnly(table, data, fails) ==
    IF data = <<>> THEN [table |-> table, raised |-> FALSE]
    ELSE IF fails THEN [table |-> table, raised |-> TRUE]
    ELSE [table |-> InsertOrReplace(table, WeatherKey,
                                    RowOf(WeatherColumns, WeatherValues(data[1]))),
          raised |-> FALSE]

\* db.py 54-83: upsert_weather_data.
UpsertWeatherData(table, data, fails) ==
    IF data = <<>> THEN [table |-> table, raised |-> FALSE]
    ELSE IF fails THEN [table |-> table, raised |-> TRUE]
    ELSE [table |-> ExecuteMany(table, WeatherKey,
                       [i \in DOMAIN data |-> RowOf(WeatherColumns, WeatherValues(data[i]))]),
          raised |-> FALSE]

\* An entry of db_log: the method, the task that called, the records passed
\* and whether the call raised.
DbCall(op, by, arg, raised) == [op |-> op, by |-> by, arg |-> arg, raised |-> raised]

\* ------------------------------------------------------------ SQLLoader
\* db.py 32, 44 and 83: the names WeatherDatabase looks up.
SchemaFiles == <<"schema/weather_station", "schema/weather_data">>
UpsertStationQuery == "queries/upsert_weather_station"
UpsertWeatherQuery == "queries/upsert_weather_data"
SqlNames == {SchemaFiles[1], SchemaFiles[2], UpsertStationQuery, UpsertWeatherQuery}

\* The text of each file as shipped, and what a test writes over one.
SqlText ==
    [name \in SqlNames |->
        CASE name = "schema/weather_station" -> "CREATE TABLE IF NOT EXISTS weather_station"
          [] name = "schema/weather_data" -> "CREATE TABLE IF NOT EXISTS weather_data"
          [] name = "queries/upsert_weather_station" -> "INSERT OR REPLACE INTO weather_station"
          [] name = "queries/upsert_weather_data" -> "INSERT OR REPLACE INTO weather_data"]
ModifiedText == "MODIFIED CONTENT"

\* sql_loader.py 16: the cache of a new loader.
EmptyCache == [name \in SqlNames |-> Absent]

\* An entry of sql_log: the name asked for, the text returned, whether
\* FileNotFoundError was raised.
SqlCall(name, text, raised) == [name |-> name, text |-> text, raised |-> raised]

\* Variant: the file is read on every call.
GetQuery_NoCache(cache, files, name) ==
    IF files[name] = Absent
    THEN [raised |-> TRUE, text |-> Absent, cache |-> cache]
    ELSE [raised |-> FALSE, text |-> files[name],
          cache |-> [cache EXCEPT ![name] = files[name]]]

\* sql_loader.py 18-33: get_query.
GetQuery(cache, files, name) ==
    IF cache[name] # Absent
    THEN [raised |-> FALSE, text |-> cache[name], cache |-> cache]
    ELSE IF files[name] = Absent
    THEN [raised |-> TRUE, text |-> Absent, cache |-> cache]
    ELSE [raised |-> FALSE, text |-> files[name],
          cache |-> [cache EXCEPT ![name] = files[name]]]

\* ------------------------------------------- WeatherDatabase, its calls
\* In what follows w is a record with the fields db_stations, db_weather,
\* db_log, sql_cache, sql_log and db_closed; sql_files is the directory.

\* db.py 44-52: upsert_station looks its statement up, then executes it; a
\* closed connection, like a statement the engine rejects, makes it raise.
CallUpsertStation(w, by, station, rejects) ==
    LET q == GetQuery(w.sql_cache, sql_files, UpsertStationQuery)
        r == UpsertStation(w.db_stations, station,
                           q.raised \/ w.db_closed \/ rejects)
    IN [w EXCEPT !.sql_cache = q.cache,
                 !.sql_log = Append(@, SqlCall(UpsertStationQuery, q.text, q.raised)),
                 !.db_stations = r.table,
                 !.db_log = Append(@, DbCall("upsert_station", by,
                                             Some(station), r.raised))]

\* db.py 61-83: upsert_weather_data; an empty list returns before the
\* statement is looked up.
CallUpsertWeatherData(w, by, data, rejects) ==
    LET q == GetQuery(w.sql_cache, sql_files, UpsertWeatherQuery)
        r == UpsertWeatherData(w.db_weather, data,
                               q.raised \/ w.db_closed \/ rejects)
        w1 == IF data = <<>> THEN w
              ELSE [w EXCEPT !.sql_cache = q.cache,
                             !.sql_log = Append(@, SqlCall(UpsertWeatherQuery,
                                                           q.text, q.raised))]
    IN [w1 EXCEPT !.db_weather = r.table,
                  !.db_log = Append(@, DbCall("upsert_weather_data", by,
                                              data, r.raised))]

\* CREATE TABLE IF NOT EXISTS: the table each schema statement makes.
CreatesTable ==
    [text \in {SqlText[SchemaFiles[1]], SqlText[SchemaFiles[2]]} |->
        IF text = SqlText[SchemaFiles[1]] THEN "weather_station" ELSE "weather_data"]

\* The engine executes a schema statement: an existing table is left as it
\* is, a missing one is created empty.  w has the field db_tables as well.
ExecuteSchema(w, text) ==
    LET tbl == CreatesTable[text] IN
    IF tbl \in w.db_tables THEN w
    ELSE IF tbl = "weather_station"
    THEN [w EXCEPT !.db_tables = @ \cup {tbl}, !.db_stations = {}]
    ELSE [w EXCEPT !.db_tables = @ \cup {tbl}, !.db_weather = {}]

\* db.py 33-34: one turn of the loop of _init_schema; `rejected` is the
\* engine rejecting the statement.  Once raised, nothing more is done.
SchemaStep(w, name, rejected) ==
    IF w.raised THEN w
    ELSE LET q == GetQuery(w.sql_cache, sql_files, name)
             w1 == [w EXCEPT !.sql_cache = q.cache,
                             !.sql_log = Append(@, SqlCall(name, q.text, q.raised))]
         IN IF q.raised \/ rejected \/ q.text \notin DOMAIN CreatesTable
            THEN [w1 EXCEPT !.raised = TRUE]
            ELSE ExecuteSchema(w1, q.text)

\* Variant: only the first schema file is applied.
InitSchema_FirstOnly(w, rejects) ==
    SchemaStep(w, SchemaFiles[1], rejects = 1)

\* db.py 30-34: _init_schema; rejects is the number of the statement the
\* engine rejects, 0 for none.
InitSchema(w, rejects) ==
    SchemaStep(SchemaStep(w, SchemaFiles[1], rejects = 1),
               SchemaFiles[2], rejects = 2)

\* db.py 22-28: WeatherDatabase.__init__ on the file holding the given
\* tables and rows: duckdb.connect, a new SQLLoader, _init_schema.
Construct(tables, stations, weather, log, sqllog, rejects) ==
    InitSchema([db_tables |-> tables, db_stations |-> stations,
                db_weather |-> weather, db_log |-> log,
                sql_cache |-> EmptyCache, sql_log |-> sqllog,
                db_closed |-> FALSE, raised |-> FALSE], rejects)

\* ------------------------------------------------------- RateLimit
min_interval == 60 \div limit_calls_per_minute

\* Variant: the test for a first call is left out.
MustSleep_NoFirstGuard(current_time, last) ==
    (current_time - last) < min_interval

\* noaa.py 35-37: whether wait() has to sleep.
MustSleep(current_time, last) ==
    (current_time - last) < min_interval /\ last > 0

WaitTime(current_time, last) == min_interval - (current_time - last)

\* -------------------------------------------------- backoff durations
Pow2(n) == 2 ^ n

\* Variant: the jitter term is left out.
TransportBackoff_NoJitter(retry_count) == 10 * Pow2(retry_count)

TransportBackoff(retry_count) == 10 * Pow2(retry_count) + retry_count

\* Variant: a flat 30 seconds whatever the attempt.
RateLimitBackoff_Flat(retry_count) == 10 * 30

RateLimitBackoff(retry_count) == 10 * (30 * retry_count)

\* Variant: the exponent is the count before this failure.
ServerBackoff_FromZero(retry_count) == 10 * Pow2(retry_count - 1)

ServerBackoff(retry_count) == 10 * Pow2(retry_count)

\* Variant: the exponent is the count before this failure.
FetchBackoff_FromZero(retry_count) == 10 * Pow2(retry_count - 1)

FetchBackoff(retry_count) == 10 * Pow2(retry_count)

\* ------------------------------------------------- loop conditions
\* Variant: the while test is strict, so max_retries = 0 makes no attempt.
LoopContinues_Strict(retry_count) == retry_count < max_retries

LoopContinues(retry_count) == retry_count <= max_retries

Exhausted(retry_count) == retry_count > max_retries

FetchLoopContinues(retry_count) == retry_count < fetch_max_retries

FetchExhausted(retry_count) == retry_count >= fetch_max_retries

\* ------------------------------------------------------------------
\* A "world" w is the state one coroutine step reads and writes: the task's
\* own record t and the shared objects.
World(s) == [t |-> task[s], last_call_time |-> last_call_time,
             wait_returns |-> wait_returns,
             db_stations |-> db_stations, db_weather |-> db_weather,
             db_log |-> db_log, station_id |-> s,
             sql_cache |-> sql_cache, sql_log |-> sql_log,
             db_closed |-> main.db_closed,
             client_closed |-> main.client_closed]

\* Variant: every exception is retried like httpcore.ReadError.
FetchExcept_RetryAll(w, e) ==
    LET rc == w.t.fetch_retry_count + 1 IN
    IF FetchExhausted(rc)
    THEN [w EXCEPT !.t.fetch_retry_count = rc, !.t.pc = "failed",
                   !.t.raised = e]
    ELSE [w EXCEPT !.t.fetch_retry_count = rc, !.t.pc = "fetch_sleep",
                   !.t.fetch_sleeps = Append(@, FetchBackoff(rc))]

\* cli.py 55-70: the except clauses of fetch_station_data around the fetch
\* and the upserts.
FetchExcept(w, e) ==
    IF e.kind = "read_error"
    THEN LET rc == w.t.fetch_retry_count + 1 IN
         IF FetchExhausted(rc)
         THEN [w EXCEPT !.t.fetch_retry_count = rc, !.t.pc = "failed",
                        !.t.raised = e]
         ELSE [w EXCEPT !.t.fetch_retry_count = rc, !.t.pc = "fetch_sleep",
                        !.t.fetch_sleeps = Append(@, FetchBackoff(rc))]
    ELSE [w EXCEPT !.t.pc = "failed", !.t.raised = e]

\* noaa.py 182-184: get_station_data logs and re-raises.
ClientRaise(w, e) == FetchExcept(w, e)

\* noaa.py 42 and 97: wait() returns, client.get is awaited.  A closed
\* httpx.AsyncClient sends nothing: get raises RuntimeError, which no except
\* clause of _make_request catches.
ClientGet(w) ==
    LET w1 == [w EXCEPT !.last_call_time = now,
                        !.wait_returns = <<@[2], now>>,
                        !.t.wakeAt = 0,
                        !.t.trace = Append(@, EvWait)]
    IN IF w.client_closed
       THEN ClientRaise(w1, [kind |-> "client_closed", attempt |-> 0])
       ELSE [w1 EXCEPT !.t.pc = "requesting",
                       !.t.attempts = @ + 1,
                       !.t.trace = Append(@, EvGet)]

\* noaa.py 34-40: RateLimit.wait up to its asyncio.sleep.
RateLimitWait(w) ==
    IF MustSleep(now, w.last_call_time)
    THEN [w EXCEPT !.t.pc = "rl_sleep",
                   !.t.wakeAt = now + WaitTime(now, w.last_call_time)]
    ELSE ClientGet(w)

\* noaa.py 148-153: after the while loop.
AfterLoop(w) ==
    IF w.t.last_exception # NoException
    THEN ClientRaise(w, w.t.last_exception)
    ELSE ClientRaise(w, [kind |-> "runtime", attempt |-> 0])

\* Variant: only the first attempt goes through the rate limiter.
LoopHead_NoWaitOnRetry(w) ==
    IF LoopContinues(w.t.retry_count)
    THEN IF w.t.retry_count = 0
         THEN RateLimitWait(w)
         ELSE [w EXCEPT !.t.pc = "requesting",
                        !.t.attempts = @ + 1,
                        !.t.trace = Append(@, EvGet)]
    ELSE AfterLoop(w)

\* noaa.py 91-97: the while test, then the try body up to client.get.
LoopHead(w) ==
    IF LoopContinues(w.t.retry_count)
    THEN RateLimitWait(w)
    ELSE AfterLoop(w)

\* noaa.py 87-89 (and 171): entry of _make_request from get_station_data.
MakeRequest(w) ==
    LoopHead([w EXCEPT !.t.retry_count = 0,
                       !.t.last_exception = NoException,
                       !.t.exc = NoException,
                       !.t.attempts = 0,
                       !.t.trace = <<>>,
                       !.t.response = None,
                       !.t.fetch_calls = @ + 1])

\* Variant: the station's row is written before its fetch is made.
FetchLoop_UpsertFirst(w) ==
    IF FetchLoopContinues(w.t.fetch_retry_count)
    THEN LET station == WeatherStation(FullElement(w.station_id))
         IN MakeRequest([w EXCEPT
                !.db_stations = UpsertStation(@, station, FALSE).table,
                !.db_log = Append(@, DbCall("upsert_station", w.station_id,
                                            Some(station), FALSE))])
    ELSE [w EXCEPT !.t.pc = "success"]

\* cli.py 31-33: the while test of fetch_station_data.
FetchLoop(w) ==
    IF FetchLoopContinues(w.t.fetch_retry_count)
    THEN MakeRequest(w)
    ELSE [w EXCEPT !.t.pc = "success"]

\* Variant: the handler does not record the exception it caught.
OnTransportError_StaleException(w, e) ==
    LET rc == w.t.retry_count + 1
        w1 == [w EXCEPT !.t.retry_count = rc]
    IN IF Exhausted(rc)
       THEN AfterLoop(w1)
       ELSE [w1 EXCEPT !.t.pc = "backoff",
                       !.t.trace = Append(@, EvSleep(TransportBackoff(rc)))]

\* noaa.py 101-114: except (RemoteProtocolError, ConnectError, TransportError)
OnTransportError(w, e) ==
    LET rc == w.t.retry_count + 1
        w1 == [w EXCEPT !.t.retry_count = rc, !.t.last_exception = e]
    IN IF Exhausted(rc)
       THEN AfterLoop(w1)
       ELSE [w1 EXCEPT !.t.pc = "backoff",
                       !.t.trace = Append(@, EvSleep(TransportBackoff(rc)))]

\* Variant: a 429 does not count toward the retry budget.
OnRateLimited_NoCount(w, e) ==
    [w EXCEPT !.t.last_exception = e, !.t.exc = e,
              !.t.pc = "backoff429",
              !.t.trace = Append(@, EvSleep(RateLimitBackoff(w.t.retry_count + 1)))]

\* noaa.py 118-125: status 429, up to its asyncio.sleep.
OnRateLimited(w, e) ==
    LET rc == w.t.retry_count + 1 IN
    [w EXCEPT !.t.retry_count = rc, !.t.last_exception = e, !.t.exc = e,
              !.t.pc = "backoff429",
              !.t.trace = Append(@, EvSleep(RateLimitBackoff(rc)))]

\* Variant: a 5xx does not count toward the retry budget.
OnServerError_NoCount(w, e) ==
    LET rc == w.t.retry_count
        w1 == [w EXCEPT !.t.last_exception = e]
    IN IF Exhausted(rc)
       THEN AfterLoop(w1)
       ELSE [w1 EXCEPT !.t.pc = "backoff",
                       !.t.trace = Append(@, EvSleep(ServerBackoff(rc + 1)))]

\* noaa.py 132-143: status 5xx.
OnServerError(w, e) ==
    LET rc == w.t.retry_count + 1
        w1 == [w EXCEPT !.t.retry_count = rc, !.t.last_exception = e]
    IN IF Exhausted(rc)
       THEN AfterLoop(w1)
       ELSE [w1 EXCEPT !.t.pc = "backoff",
                       !.t.trace = Append(@, EvSleep(ServerBackoff(rc)))]

\* Variant: every status error other than 429 is retried like a 5xx.
OnStatusError_RetryAll(w, e) ==
    IF e.kind = "http429" THEN OnRateLimited(w, e)
    ELSE OnServerError(w, e)

\* noaa.py 116-146: except HTTPStatusError.
OnStatusError(w, e) ==
    IF e.kind = "http429" THEN OnRateLimited(w, e)
    ELSE IF e.kind = "http5xx" THEN OnServerError(w, e)
    ELSE ClientRaise(w, e)

\* noaa.py 127-146: after the 429 sleep: continue while budget remains, else
\* fall through to the 5xx test, which a 429 fails, and re-raise.
AfterRateLimitSleep(w) ==
    IF w.t.retry_count <= max_retries
    THEN LoopHead(w)
    ELSE ClientRaise(w, w.t.exc)

\* noaa.py 98-146: the outcome of one awaited client.get.
OnFailure(w, e) ==
    IF e.kind = "transport" THEN OnTransportError(w, e)
    ELSE IF e.kind \in {"http429", "http5xx", "http4xx"} THEN OnStatusError(w, e)
    ELSE ClientRaise(w, e)

\* Whether the last call logged on the store raised.
LastCallRaised(w) == w.db_log[Len(w.db_log)].raised

\* Variant: a failed upsert_station is logged and passed over.
Upserts_IgnoreStationError(w, s, weather_data, station_info, store) ==
    LET w1 == IF station_info # None
              THEN CallUpsertStation(w, s, station_info[1], store = "station_fails")
              ELSE w
        w2 == IF weather_data # <<>>
              THEN CallUpsertWeatherData(w1, s, weather_data, store = "weather_fails")
              ELSE w1
    IN IF weather_data # <<>> /\ LastCallRaised(w2)
       THEN FetchExcept(w2, [kind |-> "storage", attempt |-> 0])
       ELSE [w2 EXCEPT !.t.pc = "success"]

\* Variant: the observations are written before the station.
Upserts_WeatherFirst(w, s, weather_data, station_info, store) ==
    LET w1 == IF weather_data # <<>>
              THEN CallUpsertWeatherData(w, s, weather_data, store = "weather_fails")
              ELSE w
        w2 == IF station_info # None
              THEN CallUpsertStation(w1, s, station_info[1], store = "station_fails")
              ELSE w1
    IN IF weather_data # <<>> /\ LastCallRaised(w1)
       THEN FetchExcept(w1, [kind |-> "storage", attempt |-> 0])
       ELSE IF station_info # None /\ LastCallRaised(w2)
       THEN FetchExcept(w2, [kind |-> "storage", attempt |-> 0])
       ELSE [w2 EXCEPT !.t.pc = "success"]

\* cli.py 37-54: the upserts after a successful fetch.  `store` says which
\* upsert, if any, the database rejects.
Upserts(w, s, weather_data, station_info, store) ==
    LET w1 == IF station_info # None
              THEN CallUpsertStation(w, s, station_info[1], store = "station_fails")
              ELSE w
        w2 == IF weather_data # <<>>
              THEN CallUpsertWeatherData(w1, s, weather_data, store = "weather_fails")
              ELSE w1
    IN IF station_info # None /\ LastCallRaised(w1)
       THEN FetchExcept(w1, [kind |-> "storage", attempt |-> 0])
       ELSE IF weather_data # <<>> /\ LastCallRaised(w2)
       THEN FetchExcept(w2, [kind |-> "storage", attempt |-> 0])
       ELSE [w2 EXCEPT !.t.pc = "success"]

\* noaa.py 99 and 172-184, then cli.py 33-54: a 200 response.
OnSuccess(w, s, body, store) ==
    LET data == BodyOf(body, s)
        r == ParseResponse(data)
        w1 == [w EXCEPT !.t.response = Some(data)]
    IN IF r.raised
       THEN ClientRaise(w1, [kind |-> "parse", attempt |-> 0])
       ELSE Upserts([w1 EXCEPT !.t.weather_data = r.weather_data,
                               !.t.station_info = r.station_info],
                    s, r.weather_data, r.station_info, store)

\* ------------------------------------------------------------ actions
Commit(s, w) ==
    /\ task' = [task EXCEPT ![s] = w.t]
    /\ last_call_time' = w.last_call_time
    /\ wait_returns' = w.wait_returns
    /\ db_stations' = w.db_stations
    /\ db_weather' = w.db_weather
    /\ db_log' = w.db_log
    /\ sql_cache' = w.sql_cache
    /\ sql_log' = w.sql_log

InitTask ==
    [pc |-> "pending", wakeAt |-> 0, retry_count |-> 0,
     last_exception |-> NoException, exc |-> NoException,
     fetch_retry_count |-> 0, attempts |-> 0, trace |-> <<>>,
     fetch_calls |-> 0, fetch_sleeps |-> <<>>,
     response |-> None, weather_data |-> <<>>, station_info |-> None,
     raised |-> NoException]

Init ==
    /\ now = 1
    /\ max_retries \in 0..MaxRetriesCfg
    /\ last_call_time = 0
    /\ task = [s \in Stations |-> InitTask]
    /\ limit_calls_per_minute = calls_per_minute
    /\ sql_files = SqlText
    /\ LET db == Construct({}, {}, {}, <<>>, <<>>, 0) IN
       /\ db_tables = db.db_tables
       /\ db_stations = db.db_stations
       /\ db_weather = db.db_weather
       /\ db_log = db.db_log
       /\ sql_cache = db.sql_cache
       /\ sql_log = db.sql_log
    /\ wait_returns = <<0, 0>>
    /\ failures = 0
    /\ main = [pc |-> "gather", client_closed |-> FALSE, db_closed |-> FALSE,
               error |-> FALSE, exit_code |-> -1, opens |-> 1]

\* cli.py 105-110: gather starts the coroutine of station s.
Start(s) ==
    /\ task[s].pc = "pending"
    /\ Commit(s, FetchLoop(World(s)))
    /\ UNCHANGED <<now, max_retries, failures, main,
                   limit_calls_per_minute, db_tables, sql_files>>

\* noaa.py 40-42: the asyncio.sleep of RateLimit.wait is over.
WakeRateLimit(s) ==
    /\ task[s].pc = "rl_sleep"
    /\ now >= task[s].wakeAt
    /\ Commit(s, ClientGet(World(s)))
    /\ UNCHANGED <<now, max_retries, failures, main,
                   limit_calls_per_minute, db_tables, sql_files>>

\* noaa.py 97-98: the awaited client.get fails.
RespondFailure(s, kind) ==
    /\ task[s].pc = "requesting"
    /\ failures < MaxFailures
    /\ failures' = failures + 1
    /\ LET w == World(s)
           e == [kind |-> kind, attempt |-> w.t.attempts]
       IN Commit(s, OnFailure([w EXCEPT !.t.trace = Append(@, EvResp(kind))], e))
    /\ UNCHANGED <<now, max_retries, main,
                   limit_calls_per_minute, db_tables, sql_files>>

\* noaa.py 97-99: the awaited client.get returns a 200 response.
RespondSuccess(s, body, store) ==
    /\ task[s].pc = "requesting"
    /\ LET w == World(s)
       IN Commit(s, OnSuccess([w EXCEPT !.t.trace = Append(@, EvResp("ok"))],
                              s, body, store))
    /\ UNCHANGED <<now, max_retries, failures, main,
                   limit_calls_per_minute, db_tables, sql_files>>

\* noaa.py 114 and 143: the backoff sleep is over; back to the while test.
BackoffDone(s) ==
    /\ task[s].pc = "backoff"
    /\ Commit(s, LoopHead(World(s)))
    /\ UNCHANGED <<now, max_retries, failures, main,
                   limit_calls_per_minute, db_tables, sql_files>>

\* noaa.py 125-129: the 429 backoff sleep is over.
RateLimitBackoffDone(s) ==
    /\ task[s].pc = "backoff429"
    /\ Commit(s, AfterRateLimitSleep(World(s)))
    /\ UNCHANGED <<now, max_retries, failures, main,
                   limit_calls_per_minute, db_tables, sql_files>>

\* cli.py 66 and 31: the sleep of fetch_station_data is over.
FetchSleepDone(s) ==
    /\ task[s].pc = "fetch_sleep"
    /\ Commit(s, FetchLoop(World(s)))
    /\ UNCHANGED <<now, max_retries, failures, main,
                   limit_calls_per_minute, db_tables, sql_files>>

\* Time passes.
Tick ==
    /\ now + TickStep <= MaxTime
    /\ now' = now + TickStep
    /\ UNCHANGED <<max_retries, last_call_time, task, db_stations, db_weather,
                   db_log, wait_returns, failures, main,
                   limit_calls_per_minute, db_tables, sql_files, sql_cache, sql_log>>

Terminal == {"success", "failed", "cancelled"}

\* Variant: the exception of a station coroutine is logged and dropped.
GatherRaise_Swallow ==
    /\ main.pc = "gather"
    /\ \E s \in Stations : task[s].pc = "failed"
    /\ main' = [main EXCEPT !.pc = "closing", !.client_closed = TRUE]
    /\ UNCHANGED <<now, max_retries, last_call_time, task, db_stations,
                   db_weather, db_log, wait_returns, failures,
                   limit_calls_per_minute, db_tables, sql_files, sql_cache, sql_log>>

\* cli.py 105-113 and noaa.py 197-210: gather re-raises the first exception
\* of a station coroutine (the others keep running); run() logs it and
\* leaves `async with`, whose __aexit__ awaits client.aclose().
GatherRaise ==
    /\ main.pc = "gather"
    /\ \E s \in Stations : task[s].pc = "failed"
    /\ main' = [main EXCEPT !.pc = "closing", !.client_closed = TRUE,
                            !.error = TRUE]
    /\ UNCHANGED <<now, max_retries, last_call_time, task, db_stations,
                   db_weather, db_log, wait_returns, failures,
                   limit_calls_per_minute, db_tables, sql_files, sql_cache, sql_log>>

\* cli.py 103-110: every coroutine returned; `async with` closes the client.
GatherReturn ==
    /\ main.pc = "gather"
    /\ \A s \in Stations : task[s].pc = "success"
    /\ main' = [main EXCEPT !.pc = "closing", !.client_closed = TRUE]
    /\ UNCHANGED <<now, max_retries, last_call_time, task, db_stations,
                   db_weather, db_log, wait_returns, failures,
                   limit_calls_per_minute, db_tables, sql_files, sql_cache, sql_log>>

\* Variant: the database is closed while station coroutines still run.
RunExit_NoCancel ==
    /\ main.pc = "closing"
    /\ main' = [main EXCEPT !.pc = "exited", !.db_closed = TRUE,
                            !.exit_code = IF main.error THEN 1 ELSE 0]
    /\ UNCHANGED <<now, max_retries, last_call_time, task, db_stations,
                   db_weather, db_log, wait_returns, failures,
                   limit_calls_per_minute, db_tables, sql_files, sql_cache, sql_log>>

\* cli.py 115-121 and db.py 85-98: run() is over; asyncio.run cancels the
\* tasks still pending, the `with` scope closes the database, main exits.
RunExit ==
    /\ main.pc = "closing"
    /\ task' = [s \in Stations |->
                  IF task[s].pc \in Terminal THEN task[s]
                  ELSE [task[s] EXCEPT !.pc = "cancelled"]]
    /\ main' = [main EXCEPT !.pc = "exited", !.db_closed = TRUE,
                            !.exit_code = IF main.error THEN 1 ELSE 0]
    /\ UNCHANGED <<now, max_retries, last_call_time, db_stations,
                   db_weather, db_log, wait_returns, failures,
                   limit_calls_per_minute, db_tables, sql_files, sql_cache, sql_log>>

Next ==
    \/ \E s \in Stations : Start(s)
    \/ \E s \in Stations : WakeRateLimit(s)
    \/ \E s \in Stations, k \in FailureKinds : RespondFailure(s, k)
    \/ \E s \in Stations, b \in Bodies,
          st \in {"ok", "station_fails", "weather_fails"} : RespondSuccess(s, b, st)
    \/ \E s \in Stations : BackoffDone(s)
    \/ \E s \in Stations : RateLimitBackoffDone(s)
    \/ \E s \in Stations : FetchSleepDone(s)
    \/ GatherRaise
    \/ GatherReturn
    \/ RunExit
    \/ Tick

Spec == Init /\ [][Next]_vars

\* ------------------------------------------------- the store on its own
\* WeatherDatabase driven directly, as tests/test_db.py drives it: any
\* sequence of at most MaxCalls upsert calls on a freshly created database,
\* with records from small pools that share keys and differ in values.
StationPool ==
    {WeatherStation(FullElement(s)) : s \in Stations}
        \cup {WeatherStation([FullElement("s1") EXCEPT !.NAME = "DULUTH",
                                                       !.ELEVATION = "4.0"])}

WeatherPool ==
    {WeatherData(FullElement("s1")),
     WeatherData(SparseElement("s1")),
     WeatherData([SparseElement("s1") EXCEPT !.DATE = "2024-01-01"]),
     WeatherData(FullElement("s2"))}

RECURSIVE SeqsUpTo(_, _)
SeqsUpTo(S, n) ==
    IF n = 0 THEN {<<>>}
    ELSE LET shorter == SeqsUpTo(S, n - 1)
         IN shorter \cup {Append(q, x) : q \in shorter, x \in S}

DataPool == SeqsUpTo(WeatherPool, MaxBatch)

InitStore ==
    /\ now = 1
    /\ max_retries = MaxRetriesCfg
    /\ limit_calls_per_minute = calls_per_minute
    /\ last_call_time = 0
    /\ task = [s \in Stations |-> InitTask]
    /\ sql_files \in {SqlText, [SqlText EXCEPT ![SchemaFiles[2]] = Absent]}
    /\ sql_cache = EmptyCache
    /\ sql_log = <<>>
    /\ db_tables = {}
    /\ db_stations = {}
    /\ db_weather = {}
    /\ db_log = <<>>
    /\ wait_returns = <<0, 0>>
    /\ failures = 0
    /\ main = [pc |-> "new", client_closed |-> FALSE, db_closed |-> FALSE,
               error |-> FALSE, exit_code |-> -1, opens |-> 0]

StoreWorld ==
    [db_tables |-> db_tables, db_stations |-> db_stations,
     db_weather |-> db_weather, db_log |-> db_log,
     sql_cache |-> sql_cache, sql_log |-> sql_log,
     db_closed |-> main.db_closed, raised |-> FALSE]

StoreCommit(w) ==
    /\ db_tables' = w.db_tables
    /\ db_stations' = w.db_stations
    /\ db_weather' = w.db_weather
    /\ db_log' = w.db_log
    /\ sql_cache' = w.sql_cache
    /\ sql_log' = w.sql_log
    /\ UNCHANGED <<now, max_retries, limit_calls_per_minute, last_call_time,
                   task, sql_files, wait_returns, failures>>

\* db.py 14-28: WeatherDatabase(db_path, sql_dir), on a new file or on the
\* file an earlier instance has closed.  When _init_schema raises, __init__
\* raises with self.conn still open: no `with` scope is entered.
StoreConstruct(rejects) ==
    /\ main.pc \in {"new", "store_exited"}
    /\ main.opens < MaxOpens
    /\ LET w == Construct(db_tables, db_stations, db_weather, db_log,
                          sql_log, rejects)
       IN /\ StoreCommit(w)
          /\ main' = [main EXCEPT
                        !.pc = IF w.raised THEN "construct_failed" ELSE "store",
                        !.db_closed = FALSE,
                        !.error = w.raised,
                        !.opens = @ + 1]

\* Variant: __exit__ closes only when the scope ends without an error.
StoreScopeExit_LeakOnError(err) ==
    /\ main.pc = "store"
    /\ main' = [main EXCEPT !.pc = "store_exited", !.db_closed = ~err,
                            !.error = err]
    /\ UNCHANGED <<now, max_retries, limit_calls_per_minute, last_call_time,
                   task, db_tables, db_stations, db_weather, db_log, sql_files,
                   sql_cache, sql_log, wait_returns, failures>>

\* db.py 85-98: the `with` scope is left, by return or by an error raised in
\* it; __exit__ calls close().
StoreScopeExit(err) ==
    /\ main.pc = "store"
    /\ main' = [main EXCEPT !.pc = "store_exited", !.db_closed = TRUE,
                            !.error = err]
    /\ UNCHANGED <<now, max_retries, limit_calls_per_minute, last_call_time,
                   task, db_tables, db_stations, db_weather, db_log, sql_files,
                   sql_cache, sql_log, wait_returns, failures>>

\* db.py 36-52: one call of upsert_station, inside the scope or after it.
StoreUpsertStation(station, rejects) ==
    /\ main.pc \in {"store", "store_exited"}
    /\ Len(db_log) < MaxCalls
    /\ StoreCommit(CallUpsertStation(StoreWorld, "test", station, rejects))
    /\ UNCHANGED main

\* db.py 54-83: one call of upsert_weather_data, inside the scope or after it.
StoreUpsertWeatherData(data, rejects) ==
    /\ main.pc \in {"store", "store_exited"}
    /\ Len(db_log) < MaxCalls
    /\ StoreCommit(CallUpsertWeatherData(StoreWorld, "test", data, rejects))
    /\ UNCHANGED main

NextStore ==
    \/ \E rejects \in 0..2 : StoreConstruct(rejects)
    \/ \E err \in BOOLEAN : StoreScopeExit(err)
    \/ \E station \in StationPool, f \in BOOLEAN : StoreUpsertStation(station, f)
    \/ \E data \in DataPool, f \in BOOLEAN : StoreUpsertWeatherData(data, f)

SpecStore == InitStore /\ [][NextStore]_vars

\* --------------------------------------------- the loader on its own
\* One SQLLoader driven directly, as tests/test_sql_loader.py drives it: at
\* most MaxLoaderCalls calls of get_query, between which files of sql_dir
\* are overwritten or removed.
InitLoader ==
    /\ now = 1
    /\ max_retries = MaxRetriesCfg
    /\ limit_calls_per_minute = calls_per_minute
    /\ last_call_time = 0
    /\ task = [s \in Stations |-> InitTask]
    /\ sql_files = SqlText
    /\ sql_cache = EmptyCache
    /\ sql_log = <<>>
    /\ db_tables = {}
    /\ db_stations = {}
    /\ db_weather = {}
    /\ db_log = <<>>
    /\ wait_returns = <<0, 0>>
    /\ failures = 0
    /\ main = [pc |-> "loader", client_closed |-> FALSE, db_closed |-> FALSE,
               error |-> FALSE, exit_code |-> -1, opens |-> 0]

\* sql_loader.py 18-33: one call of get_query.
LoaderGetQuery(name) ==
    /\ Len(sql_log) < MaxLoaderCalls
    /\ LET q == GetQuery(sql_cache, sql_files, name) IN
       /\ sql_cache' = q.cache
       /\ sql_log' = Append(sql_log, SqlCall(name, q.text, q.raised))
    /\ UNCHANGED <<now, max_retries, limit_calls_per_minute, last_call_time,
                   task, db_tables, db_stations, db_weather, db_log, sql_files,
                   wait_returns, failures, main>>

\* tests/test_sql_loader.py 55: a file of sql_dir is written.
FileWrite(name, text) ==
    /\ sql_files[name] # text
    /\ sql_files' = [sql_files EXCEPT ![name] = text]
    /\ UNCHANGED <<now, max_retries, limit_calls_per_minute, last_call_time,
                   task, db_tables, db_stations, db_weather, db_log, sql_cache,
                   sql_log, wait_returns, failures, main>>

\* A file of sql_dir is removed.
FileRemove(name) ==
    /\ sql_files[name] # Absent
    /\ sql_files' = [sql_files EXCEPT ![name] = Absent]
    /\ UNCHANGED <<now, max_retries, limit_calls_per_minute, last_call_time,
                   task, db_tables, db_stations, db_weather, db_log, sql_cache,
                   sql_log, wait_returns, failures, main>>

NextLoader ==
    \/ \E name \in SqlNames : LoaderGetQuery(name)
    \/ \E name \in SqlNames :
           \E text \in {SqlText[name], ModifiedText} : FileWrite(name, text)
    \/ \E name \in SqlNames : FileRemove(name)

SpecLoader == InitLoader /\ [][NextLoader]_vars

\* -------------------------------------------- the limiter on its own
\* One RateLimit(calls_per_minute) called by a single caller, each wait()
\* begun after the one before has returned, under a clock that advances by
\* any amount between and during the calls.  The rates are those whose
\* interval 60 / N is a whole number of seconds.
CpmValues == {3, 4, 5, 6, 10, 12, 15, 20, 30, 60}

InitLimiter ==
    /\ now = 1
    /\ max_retries = MaxRetriesCfg
    /\ limit_calls_per_minute \in CpmValues
    /\ last_call_time = 0
    /\ task = [s \in Stations |-> InitTask]
    /\ sql_files = SqlText
    /\ sql_cache = EmptyCache
    /\ sql_log = <<>>
    /\ db_tables = {}
    /\ db_stations = {}
    /\ db_weather = {}
    /\ db_log = <<>>
    /\ wait_returns = <<0, 0>>
    /\ failures = 0
    /\ main = [pc |-> "limiter_idle", wakeAt |-> 0, client_closed |-> FALSE,
               db_closed |-> FALSE, error |-> FALSE, exit_code |-> -1,
               opens |-> 0]

\* noaa.py 32-42: the caller calls wait(); it sleeps, or returns at once.
LimiterCall ==
    /\ main.pc = "limiter_idle"
    /\ IF MustSleep(now, last_call_time)
       THEN /\ main' = [main EXCEPT !.pc = "limiter_sleep",
                                    !.wakeAt = now + WaitTime(now, last_call_time)]
            /\ UNCHANGED <<last_call_time, wait_returns>>
       ELSE /\ last_call_time' = now
            /\ wait_returns' = <<wait_returns[2], now>>
            /\ UNCHANGED main
    /\ UNCHANGED <<now, max_retries, limit_calls_per_minute, task, db_tables,
                   db_stations, db_weather, db_log, sql_files, sql_cache,
                   sql_log, failures>>

\* noaa.py 40-42: the sleep is over, wait() returns.
LimiterWake ==
    /\ main.pc = "limiter_sleep"
    /\ now >= main.wakeAt
    /\ last_call_time' = now
    /\ wait_returns' = <<wait_returns[2], now>>
    /\ main' = [main EXCEPT !.pc = "limiter_idle", !.wakeAt = 0]
    /\ UNCHANGED <<now, max_retries, limit_calls_per_minute, task, db_tables,
                   db_stations, db_weather, db_log, sql_files, sql_cache,
                   sql_log, failures>>

\* The clock advances by d seconds.
LimiterAdvance(d) ==
    /\ now + d <= MaxTime
    /\ now' = now + d
    /\ UNCHANGED <<max_retries, limit_calls_per_minute, last_call_time, task,
                   db_tables, db_stations, db_weather, db_log, sql_files,
                   sql_cache, sql_log, wait_returns, failures, main>>

NextLimiter ==
    \/ LimiterCall
    \/ LimiterWake
    \/ \E d \in 1..TickStep : LimiterAdvance(d)

SpecLimiter == InitLimiter /\ [][NextLimiter]_vars

\* ------------------------------------------------------------------
\* Reading a task's trace: the events of its current get_station_data call.
IsResp(x) == x.ev = "resp"
IsSleep(x) == x.ev = "sleep"
IsGet(x) == x.ev = "get"
Retryable == {"transport", "http429", "http5xx"}
IsRetryableResp(x) == x.ev = "resp" /\ x.kind \in Retryable

Resps(tr) == SelectSeq(tr, IsResp)
Sleeps(tr) == SelectSeq(tr, IsSleep)
Gets(tr) == SelectSeq(tr, IsGet)
FailuresUpTo(tr, i) == Len(SelectSeq(SubSeq(tr, 1, i), IsRetryableResp))
AllResps(tr, kind) ==
    Len(Resps(tr)) >= 1 /\ \A i \in 1..Len(Resps(tr)) : Resps(tr)[i].kind = kind
KindsIn(tr) == {Resps(tr)[i].kind : i \in 1..Len(Resps(tr))}
InFetch == {"rl_sleep", "requesting", "backoff", "backoff429"}

\* ------------------------------------------------------------------ C1
\* C1: any two successive returns from RateLimit.wait(), by whichever tasks,
\* are at least min_interval seconds apart.
C1_WaitReturnsSpaced ==
    wait_returns[1] > 0 => wait_returns[2] - wait_returns[1] >= min_interval

\* ------------------------------------------------------------------ C2
\* C2: every retryable failure of a fetch (transport, 429 or 5xx alike) is
\* counted in the one retry_count, the fetch goes on to another attempt only
\* while retry_count <= max_retries, and so it ends after a bounded number of
\* failures whatever their order.
C2_BoundedRetryTotal ==
    \A s \in Stations :
        LET t == task[s] IN
        /\ t.pc \in InFetch =>
               t.retry_count = FailuresUpTo(t.trace, Len(t.trace))
        /\ t.pc \in {"rl_sleep", "requesting", "backoff"} =>
               t.retry_count <= max_retries
        /\ FailuresUpTo(t.trace, Len(t.trace)) <= max_retries + 1

C2_Witness ==
    \E s \in Stations :
        /\ task[s].pc = "failed"
        /\ max_retries >= 2
        /\ task[s].retry_count = max_retries + 1
        /\ "http429" \in KindsIn(task[s].trace)
        /\ KindsIn(task[s].trace) \cap {"transport", "http5xx"} # {}

\* ------------------------------------------------------------------ C3
\* C3 as stated: with max_retries = N one fetch makes at most N HTTP attempts
\* (N >= 1; with N = 0 the statement would allow no attempt at all).
C3_AtMostNAttempts ==
    \A s \in Stations :
        max_retries >= 1 => Len(Gets(task[s].trace)) <= max_retries

\* C3 amended: one fetch makes at most N + 1 HTTP attempts, the first one
\* and N retries.
C3_AtMostNPlusOneAttempts ==
    \A s \in Stations : Len(Gets(task[s].trace)) <= max_retries + 1

C3_Witness ==
    \E s \in Stations :
        /\ max_retries >= 2
        /\ Len(Gets(task[s].trace)) = max_retries + 1
        /\ Cardinality(KindsIn(task[s].trace) \cap Retryable) >= 2
        /\ task[s].pc \in {"failed", "success"}

\* ------------------------------------------------------------------ C4
\* C4: when the responses of a fetch are k times 5xx and then 200, the client
\* returns that response and has slept exactly k times, 2^1, ..., 2^k seconds
\* in that order.
C4_ServerErrorBackoff ==
    \A s \in Stations :
        LET t == task[s]
            r == Resps(t.trace)
            k == Len(r) - 1
        IN (/\ Len(r) >= 1
            /\ r[Len(r)].kind = "ok"
            /\ \A i \in 1..k : r[i].kind = "http5xx")
           => /\ Sleeps(t.trace) = [i \in 1..k |-> EvSleep(10 * 2 ^ i)]
              /\ t.raised.kind \in {"none", "parse", "storage"}
              /\ t.trace[Len(t.trace)] = EvResp("ok")

C4_Witness ==
    \E s \in Stations :
        /\ task[s].pc = "success"
        /\ Len(Resps(task[s].trace)) = 3
        /\ Resps(task[s].trace)[1].kind = "http5xx"
        /\ Resps(task[s].trace)[2].kind = "http5xx"
        /\ Len(Sleeps(task[s].trace)) = 2

\* ------------------------------------------------------------------ C5
\* C5: when every response of a fetch is a 429, the i-th backoff is 30 * i
\* seconds, there is one before each retry, no attempt is made beyond the
\* budget, and with the budget exhausted the error raised is the 429 status
\* error of the last attempt.
C5_RateLimitedRaises429 ==
    \A s \in Stations :
        LET t == task[s]
            sl == Sleeps(t.trace)
        IN AllResps(t.trace, "http429") =>
           /\ \A i \in 1..Len(sl) : sl[i].d = 10 * (30 * i)
           /\ Len(sl) >= Len(Gets(t.trace)) - 1
           /\ Len(Gets(t.trace)) <= max_retries + 1
           /\ (t.retry_count > max_retries /\ t.pc \notin {"backoff429", "cancelled"})
                  => /\ t.pc = "failed"
                     /\ t.raised = [kind |-> "http429", attempt |-> max_retries + 1]

C5_Witness ==
    \E s \in Stations :
        /\ max_retries >= 2
        /\ AllResps(task[s].trace, "http429")
        /\ Len(Gets(task[s].trace)) = max_retries + 1
        /\ task[s].pc = "failed"
        /\ task[s].raised.kind = "http429"

\* ------------------------------------------------------------------ C6
\* C6: a status error that is neither 429 nor 5xx ends the fetch in the step
\* that receives it: it is the last event of the fetch (no sleep, no further
\* request), it is the error raised, and fetch_station_data fails without
\* calling the client again.
C6_OtherStatusRaisesAtOnce ==
    \A s \in Stations :
        LET t == task[s] IN
        \A i \in 1..Len(t.trace) :
            (t.trace[i].ev = "resp" /\ t.trace[i].kind = "http4xx") =>
                /\ i = Len(t.trace)
                /\ t.pc = "failed"
                /\ t.raised = [kind |-> "http4xx", attempt |-> Len(Gets(t.trace))]

C6_Witness ==
    \E s \in Stations :
        /\ task[s].pc = "failed"
        /\ task[s].raised.kind = "http4xx"
        /\ task[s].raised.attempt >= 2
        /\ Len(Sleeps(task[s].trace)) >= 1

\* ------------------------------------------------------------------ C7
\* C7: when the retry budget is exhausted, the error raised is the error of
\* the last attempt made, whatever classes of failure came before.
C7_LastErrorRaised ==
    \A s \in Stations :
        LET t == task[s]
            r == Resps(t.trace)
        IN (t.pc = "failed" /\ t.retry_count > max_retries) =>
               /\ Len(r) >= 1
               /\ t.raised = [kind |-> r[Len(r)].kind, attempt |-> Len(Gets(t.trace))]
               /\ t.raised.kind \in Retryable

C7_Witness ==
    \E s \in Stations :
        /\ task[s].pc = "failed"
        /\ max_retries >= 1
        /\ task[s].retry_count > max_retries
        /\ Cardinality(KindsIn(task[s].trace)) >= 2
        /\ task[s].raised.attempt = max_retries + 1

C9_WaitBeforeEveryRequest ==
    \A s \in Stations :
        LET t == task[s] IN
        /\ \A i \in 1..Len(t.trace) :
               t.trace[i].ev = "get" => (i > 1 /\ t.trace[i - 1].ev = "wait")
        /\ t.pc = "requesting" =>
               (Len(t.trace) >= 2 /\ t.trace[Len(t.trace)].ev = "get")

C9_Witness ==
    \E s \in Stations :
        /\ Len(Gets(task[s].trace)) >= 3
        /\ Len(Sleeps(task[s].trace)) >= 2
        /\ task[s].pc = "requesting"

\* ------------------------------------------------------------------ C10
\* C10 as stated: fetch_station_data calls the client's fetch at most once
\* per station and run.
C10_FetchCalledOnce ==
    \A s \in Stations : task[s].fetch_calls <= 1

\* C10 amended: fetch_station_data calls the client's fetch again only after
\* an httpcore.ReadError came out of the client, at most fetch_max_retries
\* times in all; once it has raised, the station's task never changes again.
C10_RetryOnlyOnReadError ==
    [][\A s \in Stations :
         /\ task[s].pc = "failed" => task'[s] = task[s]
         /\ task[s].pc = "fetch_sleep" =>
                /\ task[s].trace[Len(task[s].trace)] = EvResp("read_error")
                /\ task[s].fetch_retry_count = task[s].fetch_calls
         /\ task'[s].fetch_calls # task[s].fetch_calls =>
                /\ task'[s].fetch_calls = task[s].fetch_calls + 1
                /\ task'[s].fetch_calls <= fetch_max_retries
                /\ task[s].pc \in {"pending", "fetch_sleep"}]_vars

C10_Witness ==
    \E s \in Stations :
        /\ task[s].pc = "failed"
        /\ task[s].fetch_calls = fetch_max_retries
        /\ task[s].raised.kind = "read_error"

\* ------------------------------------------------------------------
\* Reading the store's call log.
CallIdx(s) == {i \in DOMAIN db_log : db_log[i].by = s}
CallIdxOf(s, op) == {i \in CallIdx(s) : db_log[i].op = op}
StationRowsOf(s) == {r \in db_stations : r["station_id"] = s}
WeatherRowsOf(s) == {r \in db_weather : r["station_id"] = s}
LastEvent(t) == t.trace[Len(t.trace)]

\* ------------------------------------------------------------------ C11
\* C11: the run exits with code 0 exactly when every station's pipeline
\* ended in success; when any pipeline failed the exit code is 1.
C11_ExitCode ==
    main.pc = "exited" =>
        /\ main.exit_code \in {0, 1}
        /\ main.exit_code = 0 <=> \A s \in Stations : task[s].pc = "success"
        /\ (\E s \in Stations : task[s].pc = "failed") => main.exit_code = 1

C11_Witness ==
    /\ main.pc = "exited"
    /\ main.exit_code = 1
    /\ \E s \in Stations : task[s].pc = "success"
    /\ \E s \in Stations : task[s].pc = "failed" /\ task[s].raised.kind = "storage"

\* ------------------------------------------------------------------ C12
\* C12: when the run ends, every station's pipeline has reached its own
\* terminal state, success or its own failure, also when another station's
\* pipeline failed first: none is cancelled.
C12_SiblingsRunToEnd ==
    main.pc = "exited" =>
        \A s \in Stations : task[s].pc \in {"success", "failed"}

\* ------------------------------------------------------------------ C13
\* C13: a store call by a station's pipeline, and any row of that station,
\* exists only once that station's fetch has returned a response, which is
\* then the last event of the pipeline; each upsert is made at most once and
\* carries records of that response only.
C13_UpsertAfterOwnFetch ==
    \A s \in Stations :
        LET t == task[s] IN
        (CallIdx(s) # {} \/ StationRowsOf(s) # {} \/ WeatherRowsOf(s) # {}) =>
            /\ t.response # None
            /\ t.trace # <<>> /\ LastEvent(t) = EvResp("ok")
            /\ t.pc \in {"success", "failed"}
            /\ t.raised.kind \in {"none", "storage"}
            /\ Cardinality(CallIdxOf(s, "upsert_station")) <= 1
            /\ Cardinality(CallIdxOf(s, "upsert_weather_data")) <= 1
            /\ \A i \in CallIdx(s) : \A j \in DOMAIN db_log[i].arg :
                   db_log[i].arg[j].station_id = s
            /\ \A r \in StationRowsOf(s) :
                   r["station_name"] = t.response[1][1].NAME
            /\ \A r \in WeatherRowsOf(s) :
                   \E j \in DOMAIN t.response[1] :
                       r["date"] = DateValue[t.response[1][j].DATE]

C13_Witness ==
    \E s \in Stations, o \in Stations :
        /\ StationRowsOf(s) # {} /\ WeatherRowsOf(s) # {}
        /\ task[s].pc = "success"
        /\ task[o].pc \in {"rl_sleep", "requesting", "backoff"}
        /\ CallIdx(o) = {}

\* ------------------------------------------------------------------ C14
\* C14: a store call that raised is the last thing its pipeline did: the
\* pipeline is failed with that error, made no store call and no request
\* after it, never called that upsert twice, and the run exits with code 1.
C14_UpsertFailureNotRetried ==
    \A s \in Stations : \A i \in CallIdx(s) :
        db_log[i].raised =>
            /\ \A j \in CallIdx(s) : j <= i
            /\ Cardinality(CallIdxOf(s, db_log[i].op)) = 1
            /\ task[s].pc = "failed"
            /\ task[s].raised.kind = "storage"
            /\ LastEvent(task[s]) = EvResp("ok")
            /\ task[s].fetch_calls = 1 + Len(task[s].fetch_sleeps)
            /\ main.pc = "exited" => main.exit_code = 1

C14_Witness ==
    \E s \in Stations : \E i \in CallIdx(s) :
        /\ db_log[i].raised
        /\ db_log[i].op = "upsert_weather_data"
        /\ CallIdxOf(s, "upsert_station") # {}
        /\ StationRowsOf(s) # {} /\ WeatherRowsOf(s) = {}
        /\ main.pc = "exited"

\* ------------------------------------------------------------------
\* A stored row against a record, column by column.
RowIsStation(r, station) ==
    /\ DOMAIN r = {"station_id", "station_name", "latitude", "longitude", "elevation"}
    /\ r["station_id"] = station.station_id
    /\ r["station_name"] = station.name
    /\ r["latitude"] = station.latitude
    /\ r["longitude"] = station.longitude
    /\ r["elevation"] = station.elevation

RowIsWeather(r, record) ==
    /\ Cardinality(DOMAIN r) = 12
    /\ r["station_id"] = record.station_id
    /\ r["date"] = record.date
    /\ r["precipitation"] = record.precipitation
    /\ r["precipitation_attributes"] = record.precipitation_attributes
    /\ r["snowfall"] = record.snowfall
    /\ r["snowfall_attributes"] = record.snowfall_attributes
    /\ r["snow_depth"] = record.snow_depth
    /\ r["snow_depth_attributes"] = record.snow_depth_attributes
    /\ r["temp_max"] = record.temp_max
    /\ r["temp_max_attributes"] = record.temp_max_attributes
    /\ r["temp_min"] = record.temp_min
    /\ r["temp_min_attributes"] = record.temp_min_attributes

\* ------------------------------------------------------------------ C15
\* C15: once every station's pipeline has ended in success, whatever the
\* interleaving was, the store holds for each station exactly one station row
\* equal to the station record its fetch returned and, for each observation
\* its fetch returned, exactly one row equal to it.
C15_NoWriteLost ==
    (\A s \in Stations : task[s].pc = "success") =>
        \A s \in Stations :
            LET t == task[s] IN
            /\ t.station_info # None =>
                   /\ Cardinality(StationRowsOf(s)) = 1
                   /\ \A r \in StationRowsOf(s) : RowIsStation(r, t.station_info[1])
            /\ Cardinality(WeatherRowsOf(s)) = Len(t.weather_data)
            /\ \A j \in DOMAIN t.weather_data :
                   \E r \in WeatherRowsOf(s) : RowIsWeather(r, t.weather_data[j])

C15_Witness ==
    /\ \A s \in Stations : task[s].pc = "success" /\ Len(task[s].weather_data) = 2
    /\ Len(db_log) = 4
    /\ db_log[1].by = db_log[2].by
    /\ db_log[3].by # db_log[1].by
    /\ task[db_log[3].by].retry_count > 0
    /\ Cardinality(db_weather) = 4

\* ------------------------------------------------------------------ C16
\* The successful upserts of the log, and the latest record under each key.
OkIdx(op) == {i \in DOMAIN db_log : db_log[i].op = op /\ ~db_log[i].raised}
StationIdxOf(id) == {i \in OkIdx("upsert_station") : db_log[i].arg[1].station_id = id}
WeatherPos == {<<i, j>> : i \in OkIdx("upsert_weather_data"), j \in 1..MaxBatch + 1}
WeatherPosOf(id, d) ==
    {p \in WeatherPos : /\ p[2] \in DOMAIN db_log[p[1]].arg
                        /\ db_log[p[1]].arg[p[2]].station_id = id
                        /\ db_log[p[1]].arg[p[2]].date = d}
NotBefore(p, q) == p[1] > q[1] \/ (p[1] = q[1] /\ p[2] >= q[2])
LatestWeather(id, d) ==
    LET p == CHOOSE p \in WeatherPosOf(id, d) : \A q \in WeatherPosOf(id, d) : NotBefore(p, q)
    IN db_log[p[1]].arg[p[2]]
LatestStation(id) ==
    LET i == CHOOSE i \in StationIdxOf(id) : \A k \in StationIdxOf(id) : i >= k
    IN db_log[i].arg[1]
Dates == {DateValue[x] : x \in DOMAIN DateValue}

\* C16: after any sequence of upserts there is one station row for each
\* station id upserted and none for any other, one observation row for each
\* (station id, date) upserted and none for any other, and each row equals
\* the record most recently upserted under its key in every column, absent
\* fields included.
C16_LatestWins ==
    /\ \A id \in Stations :
           LET rows == {r \in db_stations : r["station_id"] = id} IN
           IF StationIdxOf(id) = {} THEN rows = {}
           ELSE /\ Cardinality(rows) = 1
                /\ \A r \in rows : RowIsStation(r, LatestStation(id))
    /\ \A id \in Stations, d \in Dates :
           LET rows == {r \in db_weather : r["station_id"] = id /\ r["date"] = d} IN
           IF WeatherPosOf(id, d) = {} THEN rows = {}
           ELSE /\ Cardinality(rows) = 1
                /\ \A r \in rows : RowIsWeather(r, LatestWeather(id, d))
    /\ \A r \in db_stations : r["station_id"] \in Stations
    /\ \A r \in db_weather : r["station_id"] \in Stations /\ r["date"] \in Dates

\* A full record overwritten by a sparse one under the same key.
C16_Witness ==
    /\ Len(db_log) = 2
    /\ \A i \in 1..2 : db_log[i].op = "upsert_weather_data" /\ ~db_log[i].raised
    /\ \E j \in DOMAIN db_log[1].arg : \E k \in DOMAIN db_log[2].arg :
           /\ db_log[1].arg[j].station_id = db_log[2].arg[k].station_id
           /\ db_log[1].arg[j].date = db_log[2].arg[k].date
           /\ db_log[1].arg[j].snowfall # None
           /\ db_log[2].arg[k].snowfall = None
    /\ \E r \in db_weather : r["snowfall"] = None /\ r["date"] = DateValue["2024-01-01"]

\* ------------------------------------------------------------------ C17
\* C17: a call of upsert_weather_data with an empty list does not raise and
\* leaves both tables as they were, whatever they hold.
C17_EmptyListNoChange ==
    [][(/\ Len(db_log') = Len(db_log) + 1
        /\ db_log'[Len(db_log')].op = "upsert_weather_data"
        /\ db_log'[Len(db_log')].arg = <<>>)
       => /\ ~db_log'[Len(db_log')].raised
          /\ db_stations' = db_stations
          /\ db_weather' = db_weather]_vars

C17_Witness ==
    /\ Len(db_log) = 2
    /\ db_log[1].op = "upsert_weather_data" /\ Len(db_log[1].arg) = 2
    /\ db_log[2].op = "upsert_weather_data" /\ db_log[2].arg = <<>>
    /\ ~db_log[2].raised
    /\ Cardinality(db_weather) = 2

\* ------------------------------------------------------------------ C18
\* C18: when the response to a station's request is the empty array, the
\* fetch returns ([], None), the pipeline makes no store call, no row of that
\* station exists, and the pipeline ends in success with no error.
C18_EmptyResponse ==
    \A s \in Stations :
        task[s].response = Some(<<>>) =>
            /\ task[s].weather_data = <<>>
            /\ task[s].station_info = None
            /\ CallIdx(s) = {}
            /\ StationRowsOf(s) = {} /\ WeatherRowsOf(s) = {}
            /\ task[s].pc = "success"
            /\ task[s].raised = NoException

C18_Witness ==
    /\ main.pc = "exited" /\ main.exit_code = 0
    /\ \E s \in Stations, o \in Stations :
           /\ task[s].response = Some(<<>>)
           /\ CallIdx(s) = {}
           /\ WeatherRowsOf(o) # {}

\* ------------------------------------------------------------------ C19
\* What a response field becomes in a record: absent stays absent.
Expect(x, conv) == IF x = Absent THEN <<>> ELSE <<conv[x]>>
ExpectStr(x) == IF x = Absent THEN <<>> ELSE <<x>>

\* C19: when a response of n >= 1 elements parses, the fetch returns n
\* observation records, the i-th made of the i-th element with absent fields
\* absent, and one station record made of the first element; station info
\* is returned exactly when the observation list is not empty.
C19_OneRecordPerElement ==
    \A s \in Stations :
        LET t == task[s] IN
        /\ (t.station_info # None) <=> (t.weather_data # <<>>)
        /\ (t.response # None /\ t.response[1] # <<>> /\ t.raised.kind # "parse") =>
               LET data == t.response[1] IN
               /\ Len(t.weather_data) = Len(data)
               /\ \A i \in DOMAIN data :
                      LET e == data[i]
                          rec == t.weather_data[i]
                      IN /\ rec.station_id = e.STATION
                         /\ rec.date = DateValue[e.DATE]
                         /\ rec.precipitation = Expect(e.PRCP, DecimalValue)
                         /\ rec.precipitation_attributes = ExpectStr(e.PRCP_ATTRIBUTES)
                         /\ rec.snowfall = Expect(e.SNOW, DecimalValue)
                         /\ rec.snowfall_attributes = ExpectStr(e.SNOW_ATTRIBUTES)
                         /\ rec.snow_depth = Expect(e.SNWD, DecimalValue)
                         /\ rec.snow_depth_attributes = ExpectStr(e.SNWD_ATTRIBUTES)
                         /\ rec.temp_max = Expect(e.TMAX, IntValue)
                         /\ rec.temp_max_attributes = ExpectStr(e.TMAX_ATTRIBUTES)
                         /\ rec.temp_min = Expect(e.TMIN, IntValue)
                         /\ rec.temp_min_attributes = ExpectStr(e.TMIN_ATTRIBUTES)
               /\ Len(t.station_info) = 1
               /\ t.station_info[1].station_id = data[1].STATION
               /\ t.station_info[1].name = data[1].NAME
               /\ t.station_info[1].latitude = DecimalValue[data[1].LATITUDE]
               /\ t.station_info[1].longitude = DecimalValue[data[1].LONGITUDE]
               /\ t.station_info[1].elevation = DecimalValue[data[1].ELEVATION]

C19_Witness ==
    \E s \in Stations, o \in Stations :
        /\ Len(task[s].weather_data) = 2
        /\ task[s].weather_data[1].snowfall = <<5000>>
        /\ task[s].weather_data[2].snowfall = <<>>
        /\ task[s].weather_data[2].date = <<2024, 1, 2>>
        /\ task[s].station_info # None
        /\ Len(task[o].weather_data) = 1
        /\ task[o].station_info # None

\* ------------------------------------------------------------------ C20
\* An element that does not parse: a required field is missing or a numeric
\* field is not a number.
BadObservation(e) ==
    \/ e.STATION = Absent \/ e.DATE = Absent
    \/ \E x \in {e.PRCP, e.SNOW, e.SNWD} : x # Absent /\ x \notin DOMAIN DecimalValue
    \/ \E x \in {e.TMAX, e.TMIN} : x # Absent /\ x \notin DOMAIN IntValue
BadStation(e) ==
    \/ e.STATION = Absent \/ e.NAME = Absent
    \/ \E x \in {e.LATITUDE, e.LONGITUDE, e.ELEVATION} : x \notin DOMAIN DecimalValue

\* C20: when a response holds an element that does not parse, the pipeline
\* has failed with the parse error, the response is the last event of its
\* fetch (no request and no backoff after it, by client or orchestrator),
\* and no store call was made and no row exists for that station.
C20_ParseErrorFatal ==
    \A s \in Stations :
        LET t == task[s] IN
        (/\ t.response # None /\ t.response[1] # <<>>
         /\ \/ \E i \in DOMAIN t.response[1] : BadObservation(t.response[1][i])
            \/ BadStation(t.response[1][1])) =>
            /\ t.pc = "failed"
            /\ t.raised.kind = "parse"
            /\ LastEvent(t) = EvResp("ok")
            /\ t.fetch_calls = 1 + Len(t.fetch_sleeps)
            /\ t.weather_data = <<>> /\ t.station_info = None
            /\ CallIdx(s) = {}
            /\ StationRowsOf(s) = {} /\ WeatherRowsOf(s) = {}
            /\ main.pc = "exited" => main.exit_code = 1

C20_Witness ==
    \E s \in Stations :
        /\ task[s].response # None
        /\ Len(task[s].response[1]) = 2
        /\ ~BadObservation(task[s].response[1][1])
        /\ ~BadStation(task[s].response[1][1])
        /\ BadObservation(task[s].response[1][2])
        /\ task[s].raised.kind = "parse"
        /\ task[s].retry_count > 0
        /\ main.pc = "exited"

\* ------------------------------------------------------------------ C21
\* A store call that reaches the connection: upsert_station, or
\* upsert_weather_data with a non-empty list.
ReachesConnection(c) == c.op = "upsert_station" \/ c.arg # <<>>

\* C21: once the `with` scope of the store is left, by return or by an
\* error, the connection is closed, and a call that reaches the closed
\* connection raises and changes no table.
C21_ClosedAfterScope ==
    /\ [](main.pc = "store_exited" => main.db_closed)
    /\ [][(/\ main.db_closed
           /\ Len(db_log') = Len(db_log) + 1
           /\ ReachesConnection(db_log'[Len(db_log')]))
          => /\ db_log'[Len(db_log')].raised
             /\ db_stations' = db_stations
             /\ db_weather' = db_weather
             /\ db_tables' = db_tables]_vars

C21_Witness ==
    /\ main.pc = "store_exited" /\ main.error /\ main.db_closed
    /\ Len(db_log) = 2
    /\ ~db_log[1].raised /\ db_log[1].op = "upsert_station"
    /\ db_log[2].raised /\ db_log[2].op = "upsert_weather_data"
    /\ db_stations # {} /\ db_weather = {}

\* ------------------------------------------------------------------ C22
\* C22: a constructed store has both tables, and constructing the store on a
\* file an earlier instance initialised leaves its tables and every row as
\* they were.
C22_SchemaIdempotent ==
    /\ [](main.pc = "store" => db_tables = {"weather_station", "weather_data"})
    /\ [][(main.pc = "store_exited" /\ main'.pc # "store_exited")
          => /\ db_tables' = db_tables
             /\ db_stations' = db_stations
             /\ db_weather' = db_weather]_vars

C22_Witness ==
    /\ main.pc = "store" /\ main.opens = 2
    /\ db_tables = {"weather_station", "weather_data"}
    /\ db_stations # {} /\ db_weather # {}

\* ------------------------------------------------------------------ C30
\* C30: when schema initialisation fails during construction, the connection
\* opened by the constructor is closed by the time the caller has the error.
C30_ClosedOnInitFailure ==
    main.pc = "construct_failed" => main.db_closed

\* ------------------------------------------------------------------ C24
\* C24: once get_query(name) has returned a text, every later
\* get_query(name) returns that text, whatever was written to or removed
\* from sql_dir in between; a lookup of a name that was never returned and
\* whose file does not exist raises FileNotFoundError.
C24_CachedTextKept ==
    /\ [](\A i \in DOMAIN sql_log : \A j \in DOMAIN sql_log :
            (i < j /\ sql_log[i].name = sql_log[j].name /\ ~sql_log[i].raised)
                => /\ ~sql_log[j].raised
                   /\ sql_log[j].text = sql_log[i].text)
    /\ [][(/\ Len(sql_log') = Len(sql_log) + 1
           /\ sql_files[sql_log'[Len(sql_log')].name] = Absent
           /\ \A i \in DOMAIN sql_log :
                  sql_log[i].name = sql_log'[Len(sql_log')].name => sql_log[i].raised)
          => sql_log'[Len(sql_log')].raised]_vars

C24_Witness ==
    /\ Len(sql_log) = 2
    /\ sql_log[1].name = sql_log[2].name
    /\ ~sql_log[2].raised
    /\ sql_log[2].text = ModifiedText
    /\ sql_files[sql_log[2].name] = Absent
    /\ \E name \in SqlNames : sql_files[name] = SqlText[name]

\* ------------------------------------------------------------------ C23
\* C23: when each wait() begins after the one before has returned, the first
\* call returns without sleeping and any two successive returns are at least
\* 60 / N seconds apart, for each rate N.
C23_SequentialSpacing ==
    /\ [](wait_returns[1] > 0 =>
            (wait_returns[2] - wait_returns[1]) * limit_calls_per_minute >= 60)
    /\ [][(main.pc = "limiter_idle" /\ wait_returns[2] = 0)
          => main'.pc # "limiter_sleep"]_vars

C23_Witness ==
    /\ limit_calls_per_minute = 4
    /\ main.pc = "limiter_idle"
    /\ wait_returns[1] > 1
    /\ wait_returns[2] - wait_returns[1] = 15

\* ------------------------------------------------------------------ C25
\* C25: fetch_station_data calls the client's fetch at most 3 times; it has
\* slept once for each call made before the current one, 2 seconds and then
\* 4 seconds, each sleep entered on an httpcore.ReadError; with the third
\* ReadError it fails; any other error fails it at once, with no sleep and
\* no further call.
C25_OrchestratorRetry ==
    /\ [](\A s \in Stations :
            LET t == task[s] IN
            /\ t.fetch_calls <= 3
            /\ Len(t.fetch_sleeps) <= 2
            /\ \A i \in DOMAIN t.fetch_sleeps : t.fetch_sleeps[i] = 10 * (2 ^ i)
            /\ t.pc = "fetch_sleep" => t.fetch_calls = Len(t.fetch_sleeps)
            /\ t.pc \in InFetch \cup {"success", "failed"} =>
                   t.fetch_calls = Len(t.fetch_sleeps) + 1
            /\ (t.pc = "failed" /\ t.raised.kind = "read_error") =>
                   t.fetch_calls = 3)
    /\ [][\A s \in Stations :
            /\ task'[s].fetch_sleeps # task[s].fetch_sleeps =>
                   /\ task[s].pc = "requesting"
                   /\ task'[s].pc = "fetch_sleep"
                   /\ LastEvent(task'[s]) = EvResp("read_error")
            /\ (/\ task[s].pc \in InFetch
                /\ task'[s].pc = "failed"
                /\ task'[s].raised.kind # "read_error") =>
                   /\ task'[s].fetch_sleeps = task[s].fetch_sleeps
                   /\ task'[s].fetch_calls = task[s].fetch_calls]_vars

C25_Witness ==
    \E s \in Stations, o \in Stations :
        /\ task[s].pc = "failed"
        /\ task[s].raised.kind = "read_error"
        /\ task[s].fetch_sleeps = <<20, 40>>
        /\ task[o].pc = "failed"
        /\ task[o].raised.kind = "http4xx"
        /\ task[o].fetch_sleeps = <<>>

\* ------------------------------------------------------------------ C26
\* C26: in a fetch that the client ended by raising a transport, 429 or 5xx
\* failure, every backoff sleep is followed by another HTTP attempt: there
\* is no sleep after the failure that used up the retries.
C26_SleepThenAttempt ==
    \A s \in Stations :
        LET t == task[s] IN
        (t.pc = "failed" /\ t.raised.kind \in Retryable) =>
            \A i \in DOMAIN t.trace :
                IsSleep(t.trace[i]) =>
                    \E j \in DOMAIN t.trace : j > i /\ IsGet(t.trace[j])

\* ------------------------------------------------------------------ C27
\* C27: once the close of the shared HTTP client has begun, no station
\* pipeline has a request in flight on it.
C27_NoRequestAfterClose ==
    main.client_closed => \A s \in Stations : task[s].pc # "requesting"

\* ------------------------------------------------------------------ C28
\* C28: the database connection is closed only when every station pipeline
\* has ended or been cancelled, and no store call is made once it is closed.
C28_NoUpsertAfterClose ==
    /\ [](main.db_closed => \A s \in Stations : task[s].pc \in Terminal)
    /\ [][db_log' # db_log => (~main.db_closed /\ ~main'.db_closed)]_vars

C28_Witness ==
    /\ main.db_closed
    /\ main.exit_code = 1
    /\ \E s \in Stations : task[s].pc = "cancelled"
    /\ \E s \in Stations : task[s].pc = "failed" /\ CallIdx(s) # {}

\* ------------------------------------------------------------------ C29
\* C29: when every element of every response carries the station id that was
\* asked for, each observation row has a station row with its station id.
C29_StationRowForEachObservation ==
    (\A s \in Stations :
        task[s].response # None =>
            \A i \in DOMAIN task[s].response[1] : task[s].response[1][i].STATION = s)
    => \A r \in db_weather :
           \E q \in db_stations : q["station_id"] = r["station_id"]

C29_Witness ==
    \E s \in Stations, o \in Stations :
        /\ WeatherRowsOf(s) # {} /\ StationRowsOf(s) # {}
        /\ \E i \in CallIdxOf(o, "upsert_station") : db_log[i].raised
        /\ CallIdxOf(o, "upsert_weather_data") = {}
        /\ WeatherRowsOf(o) = {}

\* ------------------------------------------------------------------ C31
\* C31: for every max_retries >= 0 and every sequence of API outcomes,
\* _make_request never raises its fallback RuntimeError("Request failed with
\* no exception"): when the retry loop has ended without a response, an error
\* of a failed attempt is recorded in last_exception, it is the error of the
\* last attempt made, and it is the error raised.
C31_NoFallbackError ==
    \A s \in Stations :
        LET t == task[s] IN
        /\ t.raised.kind # "runtime"
        /\ (t.pc = "failed" /\ t.retry_count > max_retries) =>
               /\ t.last_exception # NoException
               /\ t.last_exception.kind \in Retryable
               /\ t.last_exception.attempt = t.attempts
               /\ t.raised = t.last_exception

C31_Witness ==
    \E s \in Stations :
        /\ max_retries = 0
        /\ task[s].pc = "failed"
        /\ task[s].retry_count = 1
        /\ task[s].attempts = 1
        /\ task[s].raised.kind \in {"transport", "http5xx"}
        /\ task[s].raised = task[s].last_exception
====
